---- MODULE Spec2Model ----
(***************************************************************************)
(* Model of app.py: the load-test runner (run_load_test), its virtual user *)
(* threads (simulate_user), the per-run LoadTestResult and its derived     *)
(* metrics, the bounded history deque (test_history) and the aggregate     *)
(* metrics handler (get_performance_metrics).                              *)
(*                                                                         *)
(* Flask runs with threaded=True: every request handler is a thread of its *)
(* own, so handlers and the virtual user threads they start interleave at  *)
(* the granularity of attribute reads and writes.                          *)
(*                                                                         *)
(* Abstractions:                                                           *)
(*  - real-valued metrics (averages, rates) are exact rationals [n, d] in  *)
(*    lowest terms; latencies are whole milliseconds;                      *)
(*  - datetime.now() is a logical clock that moves on at every read;       *)
(*  - one entry of the dict that to_dict builds is evaluated in one step   *)
(*    (the entries themselves are evaluated one after the other);          *)
(*  - a handler slot takes its next request only when the threads of its   *)
(*    previous request have ended (two slots give overlapping requests).   *)
(***************************************************************************)
EXTENDS Integers, Sequences, FiniteSets, TLC

\* ------------------------------------------------------------------ bounds
MaxUsers == 2          \* largest `users` a request asks for
MaxRuns == 1           \* run_load_test requests in Spec
MaxHistoryRuns == 52   \* run_load_test requests in SpecHistory
MaxLoadedRuns == 1     \* requests of SpecHistory, SpecMetrics that start a thread
MaxMetricsRuns == 2    \* run_load_test requests in SpecMetrics
MaxStatLen == 101      \* longest response_times in SpecStats
MaxHigh == 6           \* most slow requests in a two-valued response_times
MaxStoreLen == 3       \* longest test_history in SpecAggregate
MaxConcRuns == 2       \* requests in SpecConc

\* ------------------------------------------------------- program constants
HistoryMaxLen == 50    \* deque(maxlen=50)

Slots == {1, 2}                    \* request handler threads of run_load_test
Tasks == 1..MaxUsers               \* thread indices (user_id)
FastMs == 10                       \* response_time_ms of an answered request
TimeoutMs == 2000                  \* response_time_ms of a request that timed out
Durations == {-5, 1}               \* `duration` values of a request
Outcomes == {"ok", "status", "timeout", "error"}

VARIABLES
    test_history,   \* the deque of stored dicts
    recorded,       \* every dict ever appended to test_history, in order
    now,            \* the clock
    nstarted,       \* number of run_load_test requests received
    rpc,            \* rpc[i]: position of handler i in run_load_test
    result,         \* result[i]: the LoadTestResult of handler i
    lock,           \* lock[i]: 0 when free, else the thread holding it
    li,             \* li[i]: threads started so far (loop of line 196)
    ji,             \* ji[i]: threads joined so far (loop of line 204)
    late,           \* late[i]: some join of the run timed out
    dk,             \* dk[i]: next entry of the dict being built by to_dict
    snap,           \* snap[i]: the dict being built by to_dict
    stored,         \* stored[i]: the dict the request appended to test_history
    response,       \* response[i]: the dict the request returned to the caller
    received,       \* received[i]: threads of the run whose request got status 200
    tpc,            \* tpc[i][t]: position of thread t in simulate_user
    tloc,           \* tloc[i][t]: locals of thread t
    mpc,            \* <<position of the get_performance_metrics handler, key>>
    metrics,        \* the metrics dict being built
    miter,          \* appends the deque had seen when the running iteration began
    mseen           \* mseen[f]: number of entries summed into metrics[f]

rvars == <<rpc, result, li, ji, late, dk, snap, stored, response, nstarted, now>>
tvars == <<tpc, tloc, lock, received>>
hvars == <<test_history, recorded>>
mvars == <<mpc, metrics, miter, mseen>>
vars == <<test_history, recorded, now, nstarted, rpc, result, lock, li, ji,
          late, dk, snap, stored, response, received, tpc, tloc, mpc, metrics,
          miter, mseen>>

\* ------------------------------------------------------------- arithmetic
RECURSIVE GCD(_, _)
GCD(a, b) == IF b = 0 THEN a ELSE GCD(b, a % b)

\* the number n / d (n >= 0, d > 0) in lowest terms
Rat(n, d) == LET g == GCD(n, d) IN [n |-> n \div g, d |-> d \div g]

Zero == Rat(0, 1)

RatLE(a, b) == a.n * b.d <= b.n * a.d

RatAdd(a, b) == Rat(a.n * b.d + b.n * a.d, a.d * b.d)

RatDivInt(a, k) == Rat(a.n, a.d * k)

RECURSIVE SeqSum(_)
SeqSum(s) == IF s = <<>> THEN 0 ELSE Head(s) + SeqSum(Tail(s))

RECURSIVE RatSeqSum(_)
RatSeqSum(s) == IF s = <<>> THEN Zero ELSE RatAdd(Head(s), RatSeqSum(Tail(s)))

SeqMin(s) == CHOOSE x \in {s[k] : k \in DOMAIN s} : \A k \in DOMAIN s : x <= s[k]

SeqMax(s) == CHOOSE x \in {s[k] : k \in DOMAIN s} : \A k \in DOMAIN s : x >= s[k]

sorted(s) == SortSeq(s, LAMBDA a, b : a < b)

\* ---------------------------------------------------------- LoadTestResult
None == <<>>

LoadTestResult ==
    [total_requests |-> 0, successful_requests |-> 0, failed_requests |-> 0,
     response_times |-> <<>>, start_time |-> None, end_time |-> None,
     concurrent_users |-> 0, test_duration |-> 0]

avg_response_time(r) ==
    IF r.response_times # <<>>
    THEN Rat(SeqSum(r.response_times), Len(r.response_times))
    ELSE Zero

min_response_time(r) ==
    IF r.response_times # <<>> THEN SeqMin(r.response_times) ELSE 0

max_response_time(r) ==
    IF r.response_times # <<>> THEN SeqMax(r.response_times) ELSE 0

\* the classical nearest rank: index ceil(len * 0.95) - 1
p95_response_time_ceil_rank(r) ==
    IF r.response_times = <<>> THEN 0
    ELSE LET sorted_times == sorted(r.response_times)
             index == ((Len(sorted_times) * 95 + 99) \div 100) - 1
         IN  sorted_times[index + 1]

\* int(len * 0.95) is floor(len * 95 / 100); sorted_times[index] is 0-based
p95_response_time(r) ==
    IF r.response_times = <<>> THEN 0
    ELSE LET sorted_times == sorted(r.response_times)
             index == (Len(sorted_times) * 95) \div 100
         IN  sorted_times[index + 1]

\* 0.90 written for 0.99
p99_response_time_p90(r) ==
    IF r.response_times = <<>> THEN 0
    ELSE LET sorted_times == sorted(r.response_times)
             index == (Len(sorted_times) * 90) \div 100
         IN  sorted_times[index + 1]

p99_response_time(r) ==
    IF r.response_times = <<>> THEN 0
    ELSE LET sorted_times == sorted(r.response_times)
             index == (Len(sorted_times) * 99) \div 100
         IN  sorted_times[index + 1]

\* the rate as a fraction of 1 instead of a percentage
success_rate_fraction(r) ==
    IF r.total_requests > 0
    THEN Rat(r.successful_requests, r.total_requests)
    ELSE Zero

success_rate(r) ==
    IF r.total_requests > 0
    THEN Rat(r.successful_requests * 100, r.total_requests)
    ELSE Zero

requests_per_second(r) ==
    IF r.start_time = None \/ r.end_time = None \/ r.total_requests = 0
    THEN Zero
    ELSE LET duration == r.end_time[1] - r.start_time[1]
         IN  IF duration > 0 THEN Rat(r.total_requests, duration) ELSE Zero

\* a datetime is <<t>>; its isoformat() string is <<"iso", t>>
isoformat(dt) == <<"iso", dt[1]>>

\* the keys of to_dict's dict, in the order their values are evaluated
DictKeys ==
    << "total_requests", "successful_requests", "failed_requests",
       "avg_response_time", "min_response_time", "max_response_time",
       "p95_response_time", "p99_response_time", "start_time", "end_time",
       "concurrent_users", "test_duration", "success_rate",
       "requests_per_second" >>

\* the value to_dict computes for one key from the object as it is now
DictValue(r, key) ==
    CASE key = "total_requests" -> r.total_requests
      [] key = "successful_requests" -> r.successful_requests
      [] key = "failed_requests" -> r.failed_requests
      [] key = "avg_response_time" -> avg_response_time(r)
      [] key = "min_response_time" -> min_response_time(r)
      [] key = "max_response_time" -> max_response_time(r)
      [] key = "p95_response_time" -> p95_response_time(r)
      [] key = "p99_response_time" -> p99_response_time(r)
      [] key = "start_time" ->
            IF r.start_time # None THEN isoformat(r.start_time) ELSE None
      [] key = "end_time" ->
            IF r.end_time # None THEN isoformat(r.end_time) ELSE None
      [] key = "concurrent_users" -> r.concurrent_users
      [] key = "test_duration" -> r.test_duration
      [] key = "success_rate" -> success_rate(r)
      [] key = "requests_per_second" -> requests_per_second(r)

\* to_dict of an object that nobody writes meanwhile
to_dict(r) == [key \in {DictKeys[k] : k \in DOMAIN DictKeys} |-> DictValue(r, key)]

\* ------------------------------------------------------------ test_history
\* a full deque refuses the new item
DequeAppend_drop_new(h, e) ==
    IF Len(h) >= HistoryMaxLen THEN h ELSE Append(h, e)

\* deque(maxlen=50).append: a full deque drops its leftmost item
DequeAppend(h, e) ==
    IF Len(h) >= HistoryMaxLen THEN Append(Tail(h), e) ELSE Append(h, e)

\* ------------------------------------------------------------------- Init
NoLocals == [outcome |-> "none", response_time_ms |-> 0, tmp |-> 0]

Init ==
    /\ test_history = <<>>
    /\ recorded = <<>>
    /\ now = 0
    /\ nstarted = 0
    /\ rpc = [i \in Slots |-> "idle"]
    /\ result = [i \in Slots |-> LoadTestResult]
    /\ lock = [i \in Slots |-> 0]
    /\ li = [i \in Slots |-> 0]
    /\ ji = [i \in Slots |-> 0]
    /\ late = [i \in Slots |-> FALSE]
    /\ dk = [i \in Slots |-> 1]
    /\ snap = [i \in Slots |-> <<>>]
    /\ stored = [i \in Slots |-> <<>>]
    /\ response = [i \in Slots |-> <<>>]
    /\ received = [i \in Slots |-> 0]
    /\ tpc = [i \in Slots |-> [t \in Tasks |-> "unstarted"]]
    /\ tloc = [i \in Slots |-> [t \in Tasks |-> NoLocals]]
    /\ mpc = <<"idle", 0>>
    /\ metrics = <<>>
    /\ miter = 0
    /\ mseen = <<>>

\* ---------------------------------------------------------- run_load_test
\* a loop that starts at least one thread
range_at_least_one(users) == IF users > 0 THEN users ELSE 1

\* range(users): the number of iterations of `for i in range(users)`
range(users) == IF users > 0 THEN users ELSE 0

Idle(i) == rpc[i] = "idle" /\ \A t \in Tasks : tpc[i][t] \in {"unstarted", "done"}

\* lines 131-143 and 195: a request arrives; the result object and the lock
\* are created
StartRun(i, users, duration) ==
    /\ Idle(i)
    /\ rpc' = [rpc EXCEPT ![i] = "launch"]
    /\ result' = [result EXCEPT ![i] =
                    [LoadTestResult EXCEPT !.start_time = <<now>>,
                                           !.concurrent_users = users,
                                           !.test_duration = duration]]
    /\ now' = now + 1
    /\ nstarted' = nstarted + 1
    /\ lock' = [lock EXCEPT ![i] = 0]
    /\ li' = [li EXCEPT ![i] = 0]
    /\ ji' = [ji EXCEPT ![i] = 0]
    /\ late' = [late EXCEPT ![i] = FALSE]
    /\ dk' = [dk EXCEPT ![i] = 1]
    /\ snap' = [snap EXCEPT ![i] = <<>>]
    /\ stored' = [stored EXCEPT ![i] = <<>>]
    /\ response' = [response EXCEPT ![i] = <<>>]
    /\ received' = [received EXCEPT ![i] = 0]
    /\ tpc' = [tpc EXCEPT ![i] = [t \in Tasks |-> "unstarted"]]
    /\ tloc' = [tloc EXCEPT ![i] = [t \in Tasks |-> NoLocals]]
    /\ UNCHANGED <<hvars, mvars>>

\* lines 196-201: one iteration of the loop that starts the threads
Launch(i) ==
    /\ rpc[i] = "launch"
    /\ li[i] < range(result[i].concurrent_users)
    /\ tpc' = [tpc EXCEPT ![i][li[i] + 1] = "request"]
    /\ li' = [li EXCEPT ![i] = li[i] + 1]
    /\ UNCHANGED <<rpc, result, ji, late, dk, snap, stored, response, nstarted, now,
                   tloc, lock, received, hvars, mvars>>

\* line 196: the loop is exhausted
LaunchDone(i) ==
    /\ rpc[i] = "launch"
    /\ li[i] >= range(result[i].concurrent_users)
    /\ rpc' = [rpc EXCEPT ![i] = "join"]
    /\ UNCHANGED <<result, li, ji, late, dk, snap, stored, response, nstarted, now,
                   tvars, hvars, mvars>>

\* line 205: t.join returns because the thread has ended
JoinEnded(i) ==
    /\ rpc[i] = "join"
    /\ ji[i] < li[i]
    /\ tpc[i][ji[i] + 1] = "done"
    /\ ji' = [ji EXCEPT ![i] = ji[i] + 1]
    /\ UNCHANGED <<rpc, result, li, late, dk, snap, stored, response, nstarted, now,
                   tvars, hvars, mvars>>

\* a join without timeout
JoinTimeout_blocking(i) ==
    /\ rpc[i] = "join"
    /\ FALSE
    /\ UNCHANGED vars

\* line 205: t.join returns because duration + 5 seconds have passed (at once
\* when duration + 5 <= 0) and the thread is still running
JoinTimeout(i) ==
    /\ rpc[i] = "join"
    /\ ji[i] < li[i]
    /\ tpc[i][ji[i] + 1] # "done"
    /\ ji' = [ji EXCEPT ![i] = ji[i] + 1]
    /\ late' = [late EXCEPT ![i] = TRUE]
    /\ UNCHANGED <<rpc, result, li, dk, snap, stored, response, nstarted, now,
                   tvars, hvars, mvars>>

\* end_time is taken without waiting for the threads
SetEndTime_before_join(i) ==
    /\ rpc[i] = "join"
    /\ result' = [result EXCEPT ![i].end_time = <<now>>]
    /\ now' = now + 1
    /\ rpc' = [rpc EXCEPT ![i] = "store_dict"]
    /\ dk' = [dk EXCEPT ![i] = 1]
    /\ snap' = [snap EXCEPT ![i] = <<>>]
    /\ UNCHANGED <<li, ji, late, stored, response, nstarted, tvars, hvars, mvars>>

\* lines 204-212: the joins are over; the is_alive loop only logs; end_time
SetEndTime(i) ==
    /\ rpc[i] = "join"
    /\ ji[i] >= li[i]
    /\ result' = [result EXCEPT ![i].end_time = <<now>>]
    /\ now' = now + 1
    /\ rpc' = [rpc EXCEPT ![i] = "store_dict"]
    /\ dk' = [dk EXCEPT ![i] = 1]
    /\ snap' = [snap EXCEPT ![i] = <<>>]
    /\ UNCHANGED <<li, ji, late, stored, response, nstarted, tvars, hvars, mvars>>

\* lines 33-48: to_dict evaluates the next entry of its dict
ToDictStep(i) ==
    /\ rpc[i] \in {"store_dict", "return_dict"}
    /\ dk[i] <= Len(DictKeys)
    /\ snap' = [snap EXCEPT ![i] =
                  (DictKeys[dk[i]] :> DictValue(result[i], DictKeys[dk[i]])) @@ snap[i]]
    /\ dk' = [dk EXCEPT ![i] = dk[i] + 1]
    /\ UNCHANGED <<rpc, result, li, ji, late, stored, response, nstarted, now,
                   tvars, hvars, mvars>>

\* line 215: test_history.append(result.to_dict())
HistoryAppend(i) ==
    /\ rpc[i] = "store_dict"
    /\ dk[i] > Len(DictKeys)
    /\ test_history' = DequeAppend(test_history, snap[i])
    /\ recorded' = Append(recorded, snap[i])
    /\ stored' = [stored EXCEPT ![i] = snap[i]]
    /\ rpc' = [rpc EXCEPT ![i] = "return_dict"]
    /\ dk' = [dk EXCEPT ![i] = 1]
    /\ snap' = [snap EXCEPT ![i] = <<>>]
    /\ UNCHANGED <<result, li, ji, late, response, nstarted, now, tvars, mvars>>

\* line 221: return jsonify(result.to_dict())
Return(i) ==
    /\ rpc[i] = "return_dict"
    /\ dk[i] > Len(DictKeys)
    /\ response' = [response EXCEPT ![i] = snap[i]]
    /\ rpc' = [rpc EXCEPT ![i] = "idle"]
    /\ snap' = [snap EXCEPT ![i] = <<>>]
    /\ dk' = [dk EXCEPT ![i] = 1]
    /\ UNCHANGED <<result, li, ji, late, stored, nstarted, now, tvars, hvars, mvars>>

\* every step of the handler after the request has arrived
RunnerStep(i) ==
    \/ Launch(i)
    \/ LaunchDone(i)
    \/ JoinEnded(i)
    \/ JoinTimeout(i)
    \/ SetEndTime(i)
    \/ ToDictStep(i)
    \/ HistoryAppend(i)
    \/ Return(i)

\* ----------------------------------------------------------- simulate_user
\* line 162: a request that times out has taken the 2 seconds of its timeout
ElapsedMs(outcome) == IF outcome = "timeout" THEN {TimeoutMs} ELSE {FastMs}

\* a thread that has ended sends its request again
Request_retry(i, t, outcome, ms) ==
    /\ tpc[i][t] \in {"request", "done"}
    /\ ms \in ElapsedMs(outcome)
    /\ tpc' = [tpc EXCEPT ![i][t] = "acquire"]
    /\ tloc' = [tloc EXCEPT ![i][t] =
                  [outcome |-> outcome, response_time_ms |-> ms, tmp |-> 0]]
    /\ received' = [received EXCEPT ![i] = IF outcome = "ok" THEN @ + 1 ELSE @]
    /\ UNCHANGED <<lock, rvars, hvars, mvars>>

\* lines 147-166, 176-178, 185-187: the request ends in a response with status
\* 200 ("ok"), a response with another status ("status"), a Timeout or another
\* exception; the elapsed time is measured
Request(i, t, outcome, ms) ==
    /\ tpc[i][t] = "request"
    /\ ms \in ElapsedMs(outcome)
    /\ tpc' = [tpc EXCEPT ![i][t] = "acquire"]
    /\ tloc' = [tloc EXCEPT ![i][t] =
                  [outcome |-> outcome, response_time_ms |-> ms, tmp |-> 0]]
    /\ received' = [received EXCEPT ![i] = IF outcome = "ok" THEN @ + 1 ELSE @]
    /\ UNCHANGED <<lock, rvars, hvars, mvars>>

\* the update section entered without waiting for the lock
Acquire_unlocked(i, t) ==
    /\ tpc[i][t] = "acquire"
    /\ lock' = [lock EXCEPT ![i] = t]
    /\ tpc' = [tpc EXCEPT ![i][t] = "load_total"]
    /\ UNCHANGED <<tloc, received, rvars, hvars, mvars>>

\* lines 168, 179, 188: with lock
Acquire(i, t) ==
    /\ tpc[i][t] = "acquire"
    /\ lock[i] = 0
    /\ lock' = [lock EXCEPT ![i] = t]
    /\ tpc' = [tpc EXCEPT ![i][t] = "load_total"]
    /\ UNCHANGED <<tloc, received, rvars, hvars, mvars>>

\* lines 169, 180, 189: result.total_requests += 1, the read
LoadTotal(i, t) ==
    /\ tpc[i][t] = "load_total"
    /\ tloc' = [tloc EXCEPT ![i][t].tmp = result[i].total_requests]
    /\ tpc' = [tpc EXCEPT ![i][t] = "store_total"]
    /\ UNCHANGED <<lock, received, rvars, hvars, mvars>>

\* one result object shared by all requests
StoreTotal_shared(i, t) ==
    /\ tpc[i][t] = "store_total"
    /\ result' = [result EXCEPT ![1].total_requests = tloc[i][t].tmp + 1]
    /\ tpc' = [tpc EXCEPT ![i][t] = "load_count"]
    /\ tloc' = [tloc EXCEPT ![i][t].tmp = 0]
    /\ UNCHANGED <<lock, received, rpc, li, ji, late, dk, snap, stored, response, nstarted,
                   now, hvars, mvars>>

\* lines 169, 180, 189: result.total_requests += 1, the write
StoreTotal(i, t) ==
    /\ tpc[i][t] = "store_total"
    /\ result' = [result EXCEPT ![i].total_requests = tloc[i][t].tmp + 1]
    /\ tpc' = [tpc EXCEPT ![i][t] = "load_count"]
    /\ tloc' = [tloc EXCEPT ![i][t].tmp = 0]
    /\ UNCHANGED <<lock, received, rpc, li, ji, late, dk, snap, stored, response, nstarted,
                   now, hvars, mvars>>

\* every response counts as successful, whatever its status
Successful_any_response(outcome) == outcome \in {"ok", "status"}

\* line 170: only a response with status 200 counts as successful; the
\* handlers of lines 176 and 185 count a failure
Successful(outcome) == outcome = "ok"

\* lines 171, 173, 181, 190: successful_requests or failed_requests += 1, the
\* read
LoadCount(i, t) ==
    /\ tpc[i][t] = "load_count"
    /\ tloc' = [tloc EXCEPT ![i][t].tmp =
                  IF Successful(tloc[i][t].outcome)
                  THEN result[i].successful_requests
                  ELSE result[i].failed_requests]
    /\ tpc' = [tpc EXCEPT ![i][t] = "store_count"]
    /\ UNCHANGED <<lock, received, rvars, hvars, mvars>>

\* the lock is released before the latency is appended
StoreCount_release_early(i, t) ==
    /\ tpc[i][t] = "store_count"
    /\ result' = IF Successful(tloc[i][t].outcome)
                 THEN [result EXCEPT ![i].successful_requests = tloc[i][t].tmp + 1]
                 ELSE [result EXCEPT ![i].failed_requests = tloc[i][t].tmp + 1]
    /\ tpc' = [tpc EXCEPT ![i][t] = "append"]
    /\ tloc' = [tloc EXCEPT ![i][t].tmp = 0, ![i][t].outcome = "none"]
    /\ lock' = [lock EXCEPT ![i] = 0]
    /\ UNCHANGED <<received, rpc, li, ji, late, dk, snap, stored, response, nstarted,
                   now, hvars, mvars>>

\* lines 171, 173, 181, 190: successful_requests or failed_requests += 1, the
\* write
StoreCount(i, t) ==
    /\ tpc[i][t] = "store_count"
    /\ result' = IF Successful(tloc[i][t].outcome)
                 THEN [result EXCEPT ![i].successful_requests = tloc[i][t].tmp + 1]
                 ELSE [result EXCEPT ![i].failed_requests = tloc[i][t].tmp + 1]
    /\ tpc' = [tpc EXCEPT ![i][t] = "append"]
    /\ tloc' = [tloc EXCEPT ![i][t].tmp = 0, ![i][t].outcome = "none"]
    /\ UNCHANGED <<lock, received, rpc, li, ji, late, dk, snap, stored, response, nstarted,
                   now, hvars, mvars>>

\* the latency of a request that timed out is not recorded
AppendTime_drop_timeout(i, t) ==
    /\ tpc[i][t] = "append"
    /\ result' = [result EXCEPT ![i].response_times =
                    IF tloc[i][t].response_time_ms = TimeoutMs
                    THEN @
                    ELSE Append(@, tloc[i][t].response_time_ms)]
    /\ tpc' = [tpc EXCEPT ![i][t] = "release"]
    /\ UNCHANGED <<tloc, lock, received, rpc, li, ji, late, dk, snap, stored,
                   response, nstarted, now, hvars, mvars>>

\* lines 174, 182, 191: result.response_times.append(response_time_ms)
AppendTime(i, t) ==
    /\ tpc[i][t] = "append"
    /\ result' = [result EXCEPT ![i].response_times =
                    Append(@, tloc[i][t].response_time_ms)]
    /\ tpc' = [tpc EXCEPT ![i][t] = "release"]
    /\ UNCHANGED <<tloc, lock, received, rpc, li, ji, late, dk, snap, stored, response, nstarted,
                   now, hvars, mvars>>

\* a thread that ends after its run was stored merges its update into the
\* stored entry
Release_merge_late(i, t) ==
    /\ tpc[i][t] = "release"
    /\ lock' = [lock EXCEPT ![i] = 0]
    /\ tpc' = [tpc EXCEPT ![i][t] = "done"]
    /\ tloc' = [tloc EXCEPT ![i][t] = NoLocals]
    /\ test_history' =
          [k \in DOMAIN test_history |->
             IF test_history[k] = stored[i] THEN to_dict(result[i]) ELSE test_history[k]]
    /\ UNCHANGED <<recorded, received, rvars, mvars>>

\* the end of the with block (and the logging of lines 183, 192): the lock is
\* released and the thread ends
Release(i, t) ==
    /\ tpc[i][t] = "release"
    /\ lock' = [lock EXCEPT ![i] = 0]
    /\ tpc' = [tpc EXCEPT ![i][t] = "done"]
    /\ tloc' = [tloc EXCEPT ![i][t] = NoLocals]
    /\ UNCHANGED <<received, rvars, hvars, mvars>>

\* every step of a thread after its request has ended
UpdateStep(i, t) ==
    \/ Acquire(i, t)
    \/ LoadTotal(i, t)
    \/ StoreTotal(i, t)
    \/ LoadCount(i, t)
    \/ StoreCount(i, t)
    \/ AppendTime(i, t)
    \/ Release(i, t)

\* ------------------------------------------------- get_performance_metrics
\* the keys of the metrics dict, in the order their values are evaluated
MetricKeys ==
    << "total_tests", "avg_success_rate", "avg_response_time", "avg_throughput",
       "total_requests", "total_successful", "total_failed" >>

\* total_failed sums the successful requests
MetricSource_copied(key) ==
    CASE key = "avg_success_rate" -> "success_rate"
      [] key = "avg_response_time" -> "avg_response_time"
      [] key = "avg_throughput" -> "requests_per_second"
      [] key = "total_requests" -> "total_requests"
      [] key = "total_successful" -> "successful_requests"
      [] key = "total_failed" -> "successful_requests"

\* t[...] of the generator that is summed for a key
MetricSource(key) ==
    CASE key = "avg_success_rate" -> "success_rate"
      [] key = "avg_response_time" -> "avg_response_time"
      [] key = "avg_throughput" -> "requests_per_second"
      [] key = "total_requests" -> "total_requests"
      [] key = "total_successful" -> "successful_requests"
      [] key = "total_failed" -> "failed_requests"

IsAverage(key) == key \in {"avg_success_rate", "avg_response_time", "avg_throughput"}

\* sum(t[source] for t in test_history) over an unchanging deque
SumOver(h, key) ==
    IF IsAverage(key)
    THEN RatSeqSum([k \in DOMAIN h |-> h[k][MetricSource(key)]])
    ELSE SeqSum([k \in DOMAIN h |-> h[k][MetricSource(key)]])

AfterKey(k) == IF k >= Len(MetricKeys) THEN <<"done", 0>> ELSE <<"iter", k + 1>>

\* lines 231-232: the request arrives; an empty history is answered with {}
MetricsStart ==
    /\ mpc = <<"idle", 0>>
    /\ metrics' = <<>>
    /\ mseen' = <<>>
    /\ mpc' = IF test_history = <<>> THEN <<"done", 0>> ELSE <<"len", 1>>
    /\ UNCHANGED <<miter, rvars, tvars, hvars>>

\* line 236: 'total_tests': len(test_history)
MetricsLen ==
    /\ mpc[1] = "len"
    /\ metrics' = (MetricKeys[mpc[2]] :> Len(test_history)) @@ metrics
    /\ mpc' = AfterKey(mpc[2])
    /\ UNCHANGED <<miter, mseen, rvars, tvars, hvars>>

\* lines 237-242: the generator of one sum starts to iterate over the deque
MetricsIter ==
    /\ mpc[1] = "iter"
    /\ miter' = Len(recorded)
    /\ mpc' = <<"sum", mpc[2]>>
    /\ UNCHANGED <<metrics, mseen, rvars, tvars, hvars>>

\* lines 237-242: the sum ends; the iterator of a deque that was appended to
\* meanwhile raises RuntimeError (deque mutated during iteration), which ends
\* the request with the answer of the 500 handler (line 263)
MetricsSum ==
    /\ mpc[1] = "sum"
    /\ IF Len(recorded) # miter
       THEN /\ mpc' = <<"failed", 0>>
            /\ metrics' = [error |-> "Internal server error"]
            /\ UNCHANGED mseen
       ELSE LET key == MetricKeys[mpc[2]] IN
            /\ metrics' = (key :> SumOver(test_history, key)) @@ metrics
            /\ mseen' = (key :> Len(test_history)) @@ mseen
            /\ mpc' = IF IsAverage(key) THEN <<"div", mpc[2]>> ELSE AfterKey(mpc[2])
    /\ UNCHANGED <<miter, rvars, tvars, hvars>>

\* lines 237-239: ... / len(test_history)
MetricsDiv ==
    /\ mpc[1] = "div"
    /\ metrics' = [metrics EXCEPT ![MetricKeys[mpc[2]]] = RatDivInt(@, Len(test_history))]
    /\ mpc' = AfterKey(mpc[2])
    /\ UNCHANGED <<miter, mseen, rvars, tvars, hvars>>

MetricsStep ==
    \/ MetricsLen
    \/ MetricsIter
    \/ MetricsSum
    \/ MetricsDiv

\* ------------------------------------------------------------------ claims
\* the dicts request i has published so far: appended to test_history, returned
Published(i) == {d \in {stored[i], response[i]} : d # <<>>}

\* every thread the run has started has ended, and the run starts no more
AllEnded(i) == rpc[i] # "launch" /\ \A t \in 1..li[i] : tpc[i][t] = "done"

InSection(i, t) ==
    tpc[i][t] \in {"load_total", "store_total", "load_count", "store_count",
                   "append", "release"}

\* the latencies of the percentile example
ExampleTimes == <<10, 20, 30, 40, 50>>

\* v is the item at 0-based index idx of the ascending sort of s
AtSortedIndex(s, v, idx) ==
    /\ \E k \in DOMAIN s : s[k] = v
    /\ Cardinality({k \in DOMAIN s : s[k] < v}) <= idx
    /\ Cardinality({k \in DOMAIN s : s[k] <= v}) > idx

\* C1: once all N threads of a run (users = N >= 0) have ended, the run's
\* total_requests is exactly N, whatever the interleaving: no update is lost.
C1_NoLostUpdate ==
    \A i \in Slots :
       (result[i].concurrent_users >= 0 /\ AllEnded(i))
          => result[i].total_requests = result[i].concurrent_users

\* both threads of a run of two users have ended, one of them after waiting for
\* the lock the other held
C1_Witness ==
    /\ result[1].concurrent_users = 2
    /\ AllEnded(1)
    /\ result[1].total_requests = 2

\* C2: every dict that run_load_test appends to the history or returns has
\* total_requests = successful_requests + failed_requests, also when threads
\* are still running while the dict is built.
C2_SnapshotSum ==
    \A i \in Slots : \A d \in Published(i) :
       d.total_requests = d.successful_requests + d.failed_requests

\* C3: the history holds min(k, 50) dicts after k appends, and they are the
\* last min(k, 50) dicts appended, oldest first.
C3_BoundedFifo ==
    LET k == Len(recorded)
        n == IF k < HistoryMaxLen THEN k ELSE HistoryMaxLen
    IN  /\ Len(test_history) = n
        /\ test_history = SubSeq(recorded, k - n + 1, k)

\* the 51st dict has been appended to a full history, which dropped its oldest
\* entry and no other
C3_Witness ==
    /\ Len(recorded) = HistoryMaxLen + 1
    /\ Len(test_history) = HistoryMaxLen
    /\ test_history[1] = recorded[2]
    /\ test_history[1] # recorded[1]
    /\ test_history[HistoryMaxLen] = recorded[HistoryMaxLen + 1]

\* C4: every request that has arrived eventually sets end_time, appends its
\* dict to the history and returns, whatever its threads do, also when they
\* never end.
C4_RunCompletes ==
    (rpc[1] # "idle") ~>
        ( /\ rpc[1] = "idle"
          /\ result[1].end_time # None
          /\ stored[1] # <<>>
          /\ response[1] # <<>> )

\* a request has returned although one of its threads timed out on its request
\* and another never got to update the result
C4_Witness ==
    /\ rpc[1] = "idle"
    /\ response[1] # <<>>
    /\ late[1]
    /\ tpc[1][1] = "request"
    /\ tpc[1][2] = "done"
    /\ result[1].failed_requests = 1

\* C5: a request with users <= 0 starts no thread and publishes dicts whose
\* counts and derived metrics are all 0; the dict it returns was appended to
\* the history before.
C5_NoUsers ==
    \A i \in Slots :
       result[i].concurrent_users <= 0 =>
          /\ \A t \in Tasks : tpc[i][t] = "unstarted"
          /\ \A d \in Published(i) :
                /\ d.total_requests = 0
                /\ d.successful_requests = 0
                /\ d.failed_requests = 0
                /\ d.avg_response_time = Zero
                /\ d.min_response_time = 0
                /\ d.max_response_time = 0
                /\ d.p95_response_time = 0
                /\ d.p99_response_time = 0
                /\ d.success_rate = Zero
                /\ d.requests_per_second = Zero
          /\ response[i] # <<>> =>
                /\ stored[i] # <<>>
                /\ \E k \in DOMAIN test_history : test_history[k] = stored[i]

\* a request with negative users has returned
C5_Witness ==
    /\ result[1].concurrent_users < 0
    /\ result[1].end_time # None
    /\ response[1] # <<>>
    /\ rpc[1] = "idle"

\* C6: when every one of the N >= 1 threads of a run got status 200 and no join
\* timed out, the published dicts have total_requests = successful_requests = N,
\* failed_requests = 0 and success_rate = 100.
C6_AllSucceed ==
    \A i \in Slots : \A d \in Published(i) :
       ( /\ result[i].concurrent_users >= 1
         /\ received[i] = result[i].concurrent_users
         /\ ~late[i] )
       => /\ d.total_requests = result[i].concurrent_users
          /\ d.successful_requests = result[i].concurrent_users
          /\ d.failed_requests = 0
          /\ d.success_rate = Rat(100, 1)

\* a run of two users, both answered with status 200 and joined in time, has
\* returned
C6_Witness ==
    /\ result[1].concurrent_users = 2
    /\ received[1] = 2
    /\ ~late[1]
    /\ response[1] # <<>>

\* C7: whenever no thread of a run is inside its update section, the run's
\* response_times has as many items as its total_requests says.
C7_TimesMatchTotal ==
    \A i \in Slots :
       (\A t \in Tasks : ~InSection(i, t))
          => Len(result[i].response_times) = result[i].total_requests

\* both threads have updated the result, one after a timeout, one with status
\* 200, and no thread is in its section
C7_Witness ==
    /\ \A t \in Tasks : ~InSection(1, t)
    /\ result[1].total_requests = 2
    /\ result[1].successful_requests = 1
    /\ TimeoutMs \in {result[1].response_times[k] : k \in DOMAIN result[1].response_times}

\* C8: an entry of the history never changes: a step either leaves test_history
\* as it is or appends one dict, which drops the oldest entry of a full deque
\* and moves the others up unchanged; the step of a thread leaves it as it is.
C8_EntriesFrozen ==
    [][ /\ \/ test_history' = test_history
           \/ /\ Len(test_history) < HistoryMaxLen
              /\ Len(test_history') = Len(test_history) + 1
              /\ SubSeq(test_history', 1, Len(test_history)) = test_history
           \/ /\ Len(test_history) = HistoryMaxLen
              /\ Len(test_history') = HistoryMaxLen
              /\ SubSeq(test_history', 1, HistoryMaxLen - 1) = Tail(test_history)
        /\ (tpc' # tpc \/ result' # result) /\ rpc' = rpc
              => test_history' = test_history ]_vars

\* a thread has ended after its run was stored: the live result has moved on
\* from the stored entry, which is still in the history
C8_Witness ==
    /\ stored[1] # <<>>
    /\ result[1].total_requests > stored[1].total_requests
    /\ \A t \in Tasks : tpc[1][t] \in {"unstarted", "done"}
    /\ \E k \in DOMAIN test_history : test_history[k] = stored[1]

\* C9: a get_performance_metrics request that has ended has not failed, and
\* every sum of its dict runs over as many entries as its total_tests says.
C9_MetricsConsistent ==
    /\ mpc[1] # "failed"
    /\ mpc[1] = "done" =>
          \A key \in DOMAIN mseen : mseen[key] = metrics["total_tests"]

\* C10: success_rate of every published dict is within [0, 100] and is 0 when
\* the dict's total_requests is 0, also when threads are still running while
\* the dict is built.
C10_SuccessRate ==
    \A i \in Slots : \A d \in Published(i) :
       /\ RatLE(Zero, d.success_rate)
       /\ RatLE(d.success_rate, Rat(100, 1))
       /\ d.total_requests = 0 => d.success_rate = Zero

\* C11: p95 and p99 of a non-empty response_times of length n are the items
\* at the 0-based indices floor(n * 0.95) and floor(n * 0.99) of its ascending
\* sort; the indices are below n; both are 50 for [10, 20, 30, 40, 50] and 0
\* for an empty list.
C11_Percentiles ==
    \A d \in Published(1) :
       LET s == result[1].response_times
           n == Len(s)
           i95 == (n * 95) \div 100
           i99 == (n * 99) \div 100
       IN  /\ n = 0 => d.p95_response_time = 0 /\ d.p99_response_time = 0
           /\ n > 0 =>
                 /\ i95 < n
                 /\ i99 < n
                 /\ AtSortedIndex(s, d.p95_response_time, i95)
                 /\ AtSortedIndex(s, d.p99_response_time, i99)
           /\ s = ExampleTimes =>
                 d.p95_response_time = 50 /\ d.p99_response_time = 50

\* the dict of a run with the latencies [10, 20, 30, 40, 50] has been stored
C11_Witness ==
    /\ result[1].response_times = ExampleTimes
    /\ stored[1] # <<>>
    /\ stored[1].p95_response_time = 50
    /\ stored[1].p99_response_time = 50

\* C12: for a non-empty response_times, min <= avg <= max and
\* p95 <= p99 <= max.
C12_MetricOrder ==
    \A d \in Published(1) :
       result[1].response_times # <<>> =>
          /\ RatLE(Rat(d.min_response_time, 1), d.avg_response_time)
          /\ RatLE(d.avg_response_time, Rat(d.max_response_time, 1))
          /\ d.p95_response_time <= d.p99_response_time
          /\ d.p99_response_time <= d.max_response_time

\* the dict of a run with 101 different latencies has been returned: all five
\* metrics differ
C12_Witness ==
    /\ Len(result[1].response_times) = 101
    /\ response[1] # <<>>
    /\ RatLE(Rat(response[1].min_response_time + 1, 1), response[1].avg_response_time)
    /\ RatLE(response[1].avg_response_time, Rat(response[1].p95_response_time - 1, 1))
    /\ response[1].p95_response_time < response[1].p99_response_time
    /\ response[1].p99_response_time < response[1].max_response_time

\* k times the mean m is the sum of the values
IsMeanOf(m, values) ==
    Rat(m.n * Len(values), m.d) = RatSeqSum(values)

\* C13: get_performance_metrics over a non-empty history returns its length as
\* total_tests, the plain sums of the runs' counters and the unweighted means
\* of their success_rate, avg_response_time and requests_per_second; over an
\* empty history it returns an empty dict and never gets to sum or divide.
C13_Aggregate ==
    LET h == test_history
        n == Len(h)
        Column(field) == [k \in DOMAIN h |-> h[k][field]]
    IN  /\ mpc[1] \in {"len", "iter", "sum", "div"} => n > 0
        /\ mpc[1] # "failed"
        /\ (mpc[1] = "done" /\ n = 0) => metrics = <<>> /\ mseen = <<>>
        /\ (mpc[1] = "done" /\ n > 0) =>
              /\ DOMAIN metrics = {MetricKeys[k] : k \in DOMAIN MetricKeys}
              /\ metrics.total_tests = n
              /\ metrics.total_requests = SeqSum(Column("total_requests"))
              /\ metrics.total_successful = SeqSum(Column("successful_requests"))
              /\ metrics.total_failed = SeqSum(Column("failed_requests"))
              /\ IsMeanOf(metrics.avg_success_rate, Column("success_rate"))
              /\ IsMeanOf(metrics.avg_response_time, Column("avg_response_time"))
              /\ IsMeanOf(metrics.avg_throughput, Column("requests_per_second"))

\* the metrics of a history of three runs of different sizes have been
\* returned: the mean success rate is not the rate of the totals
C13_Witness ==
    /\ mpc[1] = "done"
    /\ Len(test_history) = 3
    /\ metrics.total_requests = 6
    /\ metrics.total_failed = 3
    /\ metrics.avg_success_rate # Rat(50, 1)

\* the threads of request i that are at one of the places pcs
ThreadsAt(i, pcs) == Cardinality({t \in Tasks : tpc[i][t] \in pcs})

\* C14: a thread writes total_requests once, one of successful_requests and
\* failed_requests once and appends one latency, and never again: each counter
\* is the number of threads that have passed its write, a thread that has ended
\* has passed all three, and total_requests never exceeds users (users >= 0).
C14_OneUpdatePerThread ==
    \A i \in Slots :
       /\ result[i].total_requests =
             ThreadsAt(i, {"load_count", "store_count", "append", "release", "done"})
       /\ result[i].successful_requests + result[i].failed_requests =
             ThreadsAt(i, {"append", "release", "done"})
       /\ Len(result[i].response_times) = ThreadsAt(i, {"release", "done"})
       /\ result[i].concurrent_users >= 0 =>
             result[i].total_requests <= result[i].concurrent_users

\* the request has returned; one of its two threads has made its update and
\* ended, the other one is still waiting for its response
C14_Witness ==
    /\ result[1].concurrent_users = 2
    /\ rpc[1] = "idle"
    /\ response[1] # <<>>
    /\ tpc[1][1] = "request"
    /\ tpc[1][2] = "done"
    /\ result[1].total_requests = 1
    /\ Len(result[1].response_times) = 1

\* C15: successful_requests counts the responses with status 200 and nothing
\* else; a response with another status, a timeout and any other exception
\* each count one failed request and append one latency: once the threads have
\* ended, successful_requests is the number of 200 responses, failed_requests
\* the number of the other threads and response_times has one entry per thread.
C15_Classification ==
    \A i \in Slots :
       /\ result[i].successful_requests <= received[i]
       /\ AllEnded(i) =>
             /\ result[i].successful_requests = received[i]
             /\ result[i].failed_requests = li[i] - received[i]
             /\ Len(result[i].response_times) = li[i]

\* both threads have ended, one with status 200 and one with a timeout, whose
\* two seconds are in response_times
C15_Witness ==
    /\ AllEnded(1)
    /\ li[1] = 2
    /\ received[1] = 1
    /\ result[1].successful_requests = 1
    /\ result[1].failed_requests = 1
    /\ \E k \in DOMAIN result[1].response_times :
          result[1].response_times[k] = TimeoutMs

\* C16: in one request the threads are started in the order 1..users and all
\* of them before the first join; end_time is set only when every started
\* thread has been joined (it ended or the join timed out); the dict is
\* appended to the history only after end_time is set, once per request.
C16_FinalizationOrder ==
    /\ \A i \in Slots :
          /\ \A t \in Tasks : tpc[i][t] # "unstarted" <=> t <= li[i]
          /\ rpc[i] = "launch" => ji[i] = 0 /\ li[i] <= range(result[i].concurrent_users)
          /\ rpc[i] # "launch" => li[i] = range(result[i].concurrent_users)
          /\ ji[i] <= li[i]
          /\ result[i].end_time # None <=> rpc[i] \in {"store_dict", "return_dict"}
                                           \/ (rpc[i] = "idle" /\ response[i] # <<>>)
          /\ result[i].end_time # None => ji[i] = li[i]
          /\ stored[i] # <<>> => result[i].end_time # None
          /\ stored[i] # <<>> <=> rpc[i] = "return_dict"
                                  \/ (rpc[i] = "idle" /\ response[i] # <<>>)
    /\ Len(recorded) + Cardinality({i \in Slots : rpc[i] # "idle" /\ stored[i] = <<>>})
          = nstarted

\* a request of two users has appended its dict after both joins were over,
\* one of them by a timeout, and has not returned yet
C16_Witness ==
    /\ rpc[1] = "return_dict"
    /\ li[1] = 2
    /\ ji[1] = 2
    /\ late[1]
    /\ result[1].end_time # None
    /\ stored[1] # <<>>
    /\ Len(recorded) = 1

\* C17: the dict a request returns equals, key by key, the dict it appended to
\* the history, also when a thread ends after its join timed out.
C17_SameSnapshot ==
    \A i \in Slots :
       response[i] # <<>> =>
          \A k \in DOMAIN DictKeys : response[i][DictKeys[k]] = stored[i][DictKeys[k]]

\* the counters and the latencies of request i, as threads write them
Written(r) ==
    <<r.total_requests, r.successful_requests, r.failed_requests, r.response_times>>

\* C19: of the threads of one request at most one is inside a with-lock block
\* at a time, and it holds the lock of the request; every step that changes
\* the counters or response_times of a result is a step of the thread that
\* holds the lock, whether its request succeeded, timed out or raised another
\* exception (the handler creating a new result object is no such write).
C19_MutualExclusion ==
    /\ [](\A i \in Slots :
            /\ Cardinality({t \in Tasks : InSection(i, t)}) <= 1
            /\ \A t \in Tasks : InSection(i, t) <=> lock[i] = t)
    /\ [][\A i \in Slots :
            (Written(result'[i]) # Written(result[i]) /\ ~Idle(i))
               => /\ lock[i] \in Tasks
                  /\ InSection(i, lock[i])
                  /\ tpc'[i][lock[i]] # tpc[i][lock[i]]
                  /\ \A t \in Tasks \ {lock[i]} : tpc'[i][t] = tpc[i][t]]_vars

\* a thread whose request timed out holds the lock and has written both
\* counters; the other thread has its response and waits for the lock
C19_Witness ==
    /\ lock[1] = 1
    /\ tpc[1][1] = "append"
    /\ tloc[1][1].response_time_ms = TimeoutMs
    /\ result[1].failed_requests = 1
    /\ tpc[1][2] = "acquire"
    /\ tloc[1][2].outcome = "error"

\* a thread of request i takes a step
ThreadStep(i) ==
    /\ rpc' = rpc
    /\ li' = li
    /\ \E t \in Tasks : tpc'[i][t] # tpc[i][t]

\* C18: two requests that run at the same time have each their own result and
\* their own lock: a step of a thread of one request leaves the result, the
\* lock and the threads of the other request as they are, the counters of a
\* result change only in steps of threads of its own request, and each result
\* counts the updates of its own threads only.
C18_Independent ==
    /\ [](\A i \in Slots :
            /\ result[i].total_requests =
                  ThreadsAt(i, {"load_count", "store_count", "append", "release", "done"})
            /\ Len(result[i].response_times) = ThreadsAt(i, {"release", "done"})
            /\ lock[i] # 0 => InSection(i, lock[i]))
    /\ [][\A i \in Slots : \A j \in Slots \ {i} :
            /\ ThreadStep(i) =>
                  /\ result'[j] = result[j]
                  /\ lock'[j] = lock[j]
                  /\ tpc'[j] = tpc[j]
                  /\ tloc'[j] = tloc[j]
            /\ (Written(result'[j]) # Written(result[j]) /\ ~Idle(j)) =>
                  ThreadStep(j) /\ tpc'[i] = tpc[i]]_vars

\* both requests are running; a thread of each is inside its with-lock block,
\* each holding the lock of its own request, and each result counts one request
C18_Witness ==
    /\ rpc[1] = "join"
    /\ rpc[2] = "join"
    /\ lock[1] = 1
    /\ lock[2] = 1
    /\ tpc[1][1] = "store_count"
    /\ tpc[2][1] = "append"
    /\ result[1].total_requests = 1
    /\ result[2].total_requests = 1
    /\ result[1].failed_requests = 0
    /\ result[2].failed_requests = 1

\* --------------------------------------------------------- specifications
\* one handler thread, every outcome of every request
Next ==
    \/ \E users \in -1..MaxUsers, duration \in Durations :
          nstarted < MaxRuns /\ StartRun(1, users, duration)
    \/ RunnerStep(1)
    \/ \E t \in Tasks, outcome \in Outcomes, ms \in {FastMs, TimeoutMs} : Request(1, t, outcome, ms)
    \/ \E t \in Tasks : UpdateStep(1, t)

Spec == Init /\ [][Next]_vars

\* requests of one duration
NextFair ==
    \/ \E users \in -1..MaxUsers :
          nstarted < MaxRuns /\ StartRun(1, users, 1)
    \/ RunnerStep(1)
    \/ \E t \in Tasks, outcome \in Outcomes, ms \in {FastMs, TimeoutMs} : Request(1, t, outcome, ms)
    \/ \E t \in Tasks : UpdateStep(1, t)

\* the handler thread is scheduled again and again; nothing is assumed of the
\* threads it starts, whose requests may hang
FairSpec == Init /\ [][NextFair]_vars /\ WF_vars(RunnerStep(1))

\* one request after the other, more than the history holds; the first
\* MaxLoadedRuns of them start a thread
NextHistory ==
    \/ \E users \in 0..1 :
          /\ nstarted < MaxHistoryRuns
          /\ users > 0 => nstarted < MaxLoadedRuns
          /\ StartRun(1, users, 1)
    \/ RunnerStep(1)
    \/ \E outcome \in Outcomes, ms \in {FastMs, TimeoutMs} : Request(1, 1, outcome, ms)
    \/ UpdateStep(1, 1)

SpecHistory == Init /\ [][NextHistory]_vars

\* load test requests, the first MaxLoadedRuns of them with a user, and one
\* get_performance_metrics request beside them
NextMetrics ==
    \/ \E users \in 0..1 :
          /\ nstarted < MaxMetricsRuns
          /\ users > 0 => nstarted < MaxLoadedRuns
          /\ StartRun(1, users, 1)
    \/ RunnerStep(1)
    \/ \E outcome \in Outcomes, ms \in {FastMs, TimeoutMs} : Request(1, 1, outcome, ms)
    \/ UpdateStep(1, 1)
    \/ MetricsStart
    \/ MetricsStep

SpecMetrics == Init /\ [][NextMetrics]_vars

\* n different latencies, slowest first
Descending(n) == [k \in 1..n |-> n + 1 - k]

\* n latencies of which the first k are slow
TwoBlock(n, k) == [j \in 1..n |-> IF j <= k THEN TimeoutMs ELSE FastMs]

\* the response_times the metrics are computed for in SpecStats
StatInputs ==
    UNION {[1..n -> {10, 20, 30}] : n \in 0..4}
    \cup {ExampleTimes, <<50, 40, 30, 20, 10>>, <<30, 10, 50, 20, 40>>}
    \cup {Descending(n) : n \in 1..MaxStatLen}
    \cup {TwoBlock(n, k) : n \in 1..MaxStatLen, k \in 0..MaxHigh}

\* a run whose threads have all ended and are joined, with the drawn
\* response_times
InitStats ==
    \E s \in StatInputs :
       /\ test_history = <<>>
       /\ recorded = <<>>
       /\ now = 1
       /\ nstarted = 1
       /\ rpc = [i \in Slots |-> IF i = 1 THEN "join" ELSE "idle"]
       /\ result = [i \in Slots |->
                      IF i = 1
                      THEN [LoadTestResult EXCEPT !.total_requests = Len(s),
                                                  !.successful_requests = Len(s),
                                                  !.response_times = s,
                                                  !.start_time = <<0>>,
                                                  !.concurrent_users = Len(s),
                                                  !.test_duration = 1]
                      ELSE LoadTestResult]
       /\ lock = [i \in Slots |-> 0]
       /\ li = [i \in Slots |-> IF i = 1 THEN Len(s) ELSE 0]
       /\ ji = [i \in Slots |-> IF i = 1 THEN Len(s) ELSE 0]
       /\ late = [i \in Slots |-> FALSE]
       /\ dk = [i \in Slots |-> 1]
       /\ snap = [i \in Slots |-> <<>>]
       /\ stored = [i \in Slots |-> <<>>]
       /\ response = [i \in Slots |-> <<>>]
       /\ received = [i \in Slots |-> IF i = 1 THEN Len(s) ELSE 0]
       /\ tpc = [i \in Slots |-> [t \in Tasks |->
                    IF i = 1 /\ t <= Len(s) THEN "done" ELSE "unstarted"]]
       /\ tloc = [i \in Slots |-> [t \in Tasks |-> NoLocals]]
       /\ mpc = <<"idle", 0>>
       /\ metrics = <<>>
       /\ miter = 0
       /\ mseen = <<>>

\* the rest of run_load_test: end_time, the two to_dict calls, the append
NextStats ==
    \/ SetEndTime(1)
    \/ ToDictStep(1)
    \/ HistoryAppend(1)
    \/ Return(1)

SpecStats == InitStats /\ [][NextStats]_vars

\* the counters and latencies of the runs a drawn history is made of: users,
\* requests answered with status 200, response_times
RunKinds ==
    { <<0, 0, <<>> >>,
      <<1, 0, <<TimeoutMs>> >>,
      <<2, 2, <<FastMs, FastMs>> >>,
      <<2, 1, <<FastMs, TimeoutMs>> >>,
      <<3, 1, <<TimeoutMs, FastMs, FastMs>> >> }

\* the dict that request number k stores when its threads end in time: the
\* clock is read at lines 138 and 212 of every request
StoredRun(kind, k) ==
    to_dict([LoadTestResult EXCEPT !.total_requests = kind[1],
                                   !.successful_requests = kind[2],
                                   !.failed_requests = kind[1] - kind[2],
                                   !.response_times = kind[3],
                                   !.start_time = <<2 * (k - 1)>>,
                                   !.end_time = <<2 * (k - 1) + 1>>,
                                   !.concurrent_users = kind[1],
                                   !.test_duration = 1])

\* the histories get_performance_metrics is applied to in SpecAggregate
StoreInputs ==
    UNION {{[k \in 1..n |-> StoredRun(kinds[k], k)] : kinds \in [1..n -> RunKinds]}
              : n \in 0..MaxStoreLen}

\* the state after the requests that made the drawn history have returned
InitAggregate ==
    \E h \in StoreInputs :
       /\ test_history = h
       /\ recorded = h
       /\ now = 2 * Len(h)
       /\ nstarted = Len(h)
       /\ rpc = [i \in Slots |-> "idle"]
       /\ result = [i \in Slots |-> LoadTestResult]
       /\ lock = [i \in Slots |-> 0]
       /\ li = [i \in Slots |-> 0]
       /\ ji = [i \in Slots |-> 0]
       /\ late = [i \in Slots |-> FALSE]
       /\ dk = [i \in Slots |-> 1]
       /\ snap = [i \in Slots |-> <<>>]
       /\ stored = [i \in Slots |-> <<>>]
       /\ response = [i \in Slots |-> <<>>]
       /\ received = [i \in Slots |-> 0]
       /\ tpc = [i \in Slots |-> [t \in Tasks |-> "unstarted"]]
       /\ tloc = [i \in Slots |-> [t \in Tasks |-> NoLocals]]
       /\ mpc = <<"idle", 0>>
       /\ metrics = <<>>
       /\ miter = 0
       /\ mseen = <<>>

\* one get_performance_metrics request and no other
NextAggregate ==
    \/ MetricsStart
    \/ MetricsStep

SpecAggregate == InitAggregate /\ [][NextAggregate]_vars

\* two handler threads serve MaxConcRuns requests of at most one user, which
\* may overlap; the threads end before their join times out
NextConc ==
    \/ \E i \in Slots, users \in 0..1 :
          nstarted < MaxConcRuns /\ StartRun(i, users, 1)
    \/ \E i \in Slots : Launch(i)
    \/ \E i \in Slots : LaunchDone(i)
    \/ \E i \in Slots : JoinEnded(i)
    \/ \E i \in Slots : SetEndTime(i)
    \/ \E i \in Slots : ToDictStep(i)
    \/ \E i \in Slots : HistoryAppend(i)
    \/ \E i \in Slots : Return(i)
    \/ \E i \in Slots, outcome \in Outcomes, ms \in {FastMs, TimeoutMs} :
          Request(i, 1, outcome, ms)
    \/ \E i \in Slots : UpdateStep(i, 1)

SpecConc == Init /\ [][NextConc]_vars

====
